---- MODULE Spec2Model ----
(***************************************************************************)
(* A model of the bandit repository: the four policies of                  *)
(* src/bandit/algorithms (RandomChoice, EpsilonGreedy, ThompsonSampling,   *)
(* LinUCB), SimulationEngine.run and compare_algorithms.                   *)
(*                                                                         *)
(* Representation.  Rewards 0.0 / 1.0 are the integers 0 / 1.  A Python    *)
(* dict (or defaultdict) is a function whose DOMAIN is its key set.  A     *)
(* numpy vector is a sequence of integers, a matrix a sequence of rows.    *)
(* A float that is a quotient is a pair <<numerator, denominator>>.  The   *)
(* generator np.random.default_rng(seed) is a deterministic state machine: *)
(* its state is a number, every draw is a function of the state and        *)
(* advances it.                                                            *)
(***************************************************************************)
EXTENDS Integers, Sequences, FiniteSets, TLC

\* ------------------------------------------------------------------ bounds

\* Rounds held by the data loader: 0..MaxRounds.
MaxRounds == 2
\* Policies handed to compare_algorithms: 0..MaxAlgos.
MaxAlgos == 2
\* Direct select_arm / update calls made on a policy in PolicySpec.
MaxCalls == 3

\* Later run() invocations on one engine.
MaxReruns == 1

\* ------------------------------------------------------------------ values

Arms == {"A", "B"}

Users == {"U0", "U1"}

\* Python's None where an arm id is expected.
None == "None"

\* An optional context argument: NoContext is None, Some(x) is the value x.
NoContext == <<>>

Some(x) == <<x>>

\* The sequences over S of length at most n.
RECURSIVE SeqsUpTo(_, _)
SeqsUpTo(S, n) ==
    IF n = 0 THEN {<<>>}
    ELSE LET shorter == SeqsUpTo(S, n - 1)
         IN shorter \cup {Append(s, x) : s \in {t \in shorter : Len(t) = n - 1}, x \in S}

CandLists == {<<"A">>, <<"A", "B">>, <<"B", "A">>}

\* Feature vectors of length 1 and 2.
Vectors == {<<1>>, <<1, 0>>, <<1, 1>>}

RangeOf(s) == {s[i] : i \in 1..Len(s)}

\* ------------------------------------------------------------------ numpy

Eye(d) == [i \in 1..d |-> [j \in 1..d |-> IF i = j THEN 1 ELSE 0]]

Zeros(d) == [i \in 1..d |-> 0]

OuterElementwise(x, y) == [i \in 1..Len(x) |-> [j \in 1..Len(y) |-> x[j] * y[j]]]

\* np.outer(x, y)
Outer(x, y) == [i \in 1..Len(x) |-> [j \in 1..Len(y) |-> x[i] * y[j]]]

Scale(r, x) == [i \in 1..Len(x) |-> r * x[i]]

\* A += M in place: shapes must agree, or M is 1 x 1 and is broadcast.
CanIAddMat(A, M) == Len(M) = Len(A) \/ Len(M) = 1

IAddMat(A, M) ==
    [i \in 1..Len(A) |-> [j \in 1..Len(A) |->
        A[i][j] + (IF Len(M) = 1 THEN M[1][1] ELSE M[i][j])]]

\* b += v in place: lengths must agree, or v has length 1 and is broadcast.
CanIAddVec(b, v) == Len(v) = Len(b) \/ Len(v) = 1

IAddVecAssign(b, v) ==
    [i \in 1..Len(b) |-> IF Len(v) = 1 THEN v[1] ELSE v[i]]

IAddVec(b, v) ==
    [i \in 1..Len(b) |-> b[i] + (IF Len(v) = 1 THEN v[1] ELSE v[i])]

\* Determinant and adjugate of a 1 x 1 or 2 x 2 matrix: A^-1 = Adj(A) / Det(A).
Det(A) ==
    IF Len(A) = 1 THEN A[1][1] ELSE A[1][1] * A[2][2] - A[1][2] * A[2][1]

Adj(A) ==
    IF Len(A) = 1 THEN <<(<<1>>)>>
    ELSE << <<A[2][2], 0 - A[1][2]>>, <<0 - A[2][1], A[1][1]>> >>

MatVec(A, x) ==
    [i \in 1..Len(A) |-> IF Len(x) = 1 THEN A[i][1] * x[1]
                         ELSE A[i][1] * x[1] + A[i][2] * x[2]]

Dot(x, y) ==
    IF Len(x) = 1 THEN x[1] * y[1] ELSE x[1] * y[1] + x[2] * y[2]

\* np.linalg.solve(A, v) needs len(v) = the order of A.
CanSolve(A, v) == Len(v) = Len(A)

\* ------------------------------------------------------------------ dicts

EmptyDict == [a \in {} |-> 0]

DictSet(dct, k, v) ==
    [a \in (DOMAIN dct) \cup {k} |-> IF a = k THEN v ELSE dct[a]]

\* defaultdict: reading a missing key stores the default under it.
DefaultGet(dct, k, default) == IF k \in DOMAIN dct THEN dct[k] ELSE default

DefaultTouch(dct, keys, default) ==
    [a \in (DOMAIN dct) \cup keys |-> IF a \in DOMAIN dct THEN dct[a] ELSE default]

\* ------------------------------------------------------------------ random source

\* The generator has RngMod states; a draw reads the state and advances it.
RngMod == 16

RngNext(x) == (5 * x + 3) % RngMod

RECURSIVE RngAfter(_, _)
RngAfter(x, n) == IF n = 0 THEN x ELSE RngAfter(RngNext(x), n - 1)

DefaultRngUnseeded(seed, id) == (seed + 7 * id) % RngMod

\* np.random.default_rng(seed) of instance id: the state depends on the seed alone.
DefaultRng(seed, id) == seed % RngMod

\* rng.random(): a float in [0, 1), as <<numerator, denominator>>.
RngRandom(x) == <<x, RngMod>>

\* rng.integers(n): an index in 0..n-1 (n >= 1).
RngIntegers(x, n) == (x * n) \div RngMod

\* rng.beta(a, b): a float in (0, 1), larger for larger a and smaller b.
RngBeta(x, a, b) == <<a * (x + 1), a * (x + 1) + b * (RngMod - x)>>

\* p > q for quotients with positive denominators.
FracGt(p, q) == p[1] * q[2] > q[1] * p[2]

FracLt(p, q) == FracGt(q, p)

\* ------------------------------------------------------------------ policies

Kinds == {"RandomChoice", "EpsilonGreedy", "ThompsonSampling", "LinUCB"}

Epsilons == {<<0, 1>>, <<1, 2>>, <<1, 1>>}

\* The outcome of a call: the policy's state after it, the value returned
\* (None when it raised), and whether it raised.
Returned(st, ret) == [st |-> st, ret |-> ret, err |-> FALSE]

Raised(st) == [st |-> st, ret |-> None, err |-> TRUE]

\* RandomChoice.__init__, EpsilonGreedy.__init__, ThompsonSampling.__init__,
\* LinUCB.__init__ in one record; a kind uses only its own fields.
NewPolicy(kind, id, seed, eps, ucbAlpha, pa, pb) ==
    [kind |-> kind,
     rng |-> DefaultRng(seed, id),
     epsilon |-> eps,
     total_reward |-> EmptyDict,
     pull_count |-> EmptyDict,
     prior_alpha |-> pa,
     prior_beta |-> pb,
     alpha |-> EmptyDict,
     beta |-> EmptyDict,
     ucb_alpha |-> ucbAlpha,
     d |-> <<>>,
     A |-> EmptyDict,
     b |-> EmptyDict]

UniformPickLenient(p, arm_ids) ==
    IF Len(arm_ids) = 0 THEN Returned([p EXCEPT !.rng = RngNext(p.rng)], None)
    ELSE Returned([p EXCEPT !.rng = RngNext(p.rng)],
                  arm_ids[RngIntegers(p.rng, Len(arm_ids)) + 1])

\* idx = rng.integers(len(arm_ids)); return arm_ids[idx]
UniformPick(p, arm_ids) ==
    IF Len(arm_ids) = 0 THEN Raised(p)
    ELSE Returned([p EXCEPT !.rng = RngNext(p.rng)],
                  arm_ids[RngIntegers(p.rng, Len(arm_ids)) + 1])

RandomChoiceSelect(p, arm_ids) == UniformPick(p, arm_ids)

RECURSIVE ScanBestLast(_, _, _)
ScanBestLast(vals, i, best) ==
    IF i > Len(vals) THEN best
    ELSE ScanBestLast(vals, i + 1, IF FracLt(vals[i], vals[best]) THEN best ELSE i)

\* The scan "best = first; for each later one: if value > best value: take it",
\* over a sequence of quotients; returns the index kept.
RECURSIVE ScanBest(_, _, _)
ScanBest(vals, i, best) ==
    IF i > Len(vals) THEN best
    ELSE ScanBest(vals, i + 1, IF FracGt(vals[i], vals[best]) THEN i ELSE best)

\* EpsilonGreedy._avg_reward on the pull counts pc.
AvgReward(p, pc, arm) ==
    IF pc[arm] = 0 THEN <<0, 1>>
    ELSE <<DefaultGet(p.total_reward, arm, 0), pc[arm]>>

EpsilonGreedySelectKnown(p, arm_ids) ==
    LET p1 == [p EXCEPT !.rng = RngNext(p.rng)]
    IN  IF FracLt(RngRandom(p.rng), p.epsilon) THEN UniformPick(p1, arm_ids)
        ELSE IF Len(arm_ids) = 0 THEN Raised(p1)
        ELSE LET pc == DefaultTouch(p1.pull_count, RangeOf(arm_ids), 0)
                 avgs == [i \in 1..Len(arm_ids) |-> AvgReward(p1, pc, arm_ids[i])]
                 best == arm_ids[ScanBest(avgs, 2, 1)]
                 better == {a \in DOMAIN pc : FracGt(AvgReward(p1, pc, a),
                                                     AvgReward(p1, pc, best))}
             IN  Returned([p1 EXCEPT !.pull_count = pc],
                          IF better = {} THEN best ELSE CHOOSE a \in better : TRUE)

EpsilonGreedySelectInclusive(p, arm_ids) ==
    LET p1 == [p EXCEPT !.rng = RngNext(p.rng)]
    IN  IF ~FracGt(RngRandom(p.rng), p.epsilon) THEN UniformPick(p1, arm_ids)
        ELSE IF Len(arm_ids) = 0 THEN Raised(p1)
        ELSE LET pc == DefaultTouch(p1.pull_count, RangeOf(arm_ids), 0)
                 avgs == [i \in 1..Len(arm_ids) |-> AvgReward(p1, pc, arm_ids[i])]
             IN  Returned([p1 EXCEPT !.pull_count = pc],
                          arm_ids[ScanBest(avgs, 2, 1)])

EpsilonGreedySelect(p, arm_ids) ==
    LET p1 == [p EXCEPT !.rng = RngNext(p.rng)]
    IN  IF FracLt(RngRandom(p.rng), p.epsilon) THEN UniformPick(p1, arm_ids)
        ELSE IF Len(arm_ids) = 0 THEN Raised(p1)
        ELSE LET pc == DefaultTouch(p1.pull_count, RangeOf(arm_ids), 0)
                 avgs == [i \in 1..Len(arm_ids) |-> AvgReward(p1, pc, arm_ids[i])]
             IN  Returned([p1 EXCEPT !.pull_count = pc],
                          arm_ids[ScanBest(avgs, 2, 1)])

EpsilonGreedyUpdateDrop(p, arm_id, reward) ==
    [p EXCEPT !.total_reward = DictSet(@, arm_id, reward),
              !.pull_count = DictSet(@, arm_id, 1)]

EpsilonGreedyUpdate(p, arm_id, reward) ==
    [p EXCEPT !.total_reward = DictSet(@, arm_id, DefaultGet(@, arm_id, 0) + reward),
              !.pull_count = DictSet(@, arm_id, DefaultGet(@, arm_id, 0) + 1)]

ThompsonSamplingSelectOneDraw(p, arm_ids) ==
    IF Len(arm_ids) = 0 THEN Raised(p)
    ELSE LET al == DefaultTouch(p.alpha, RangeOf(arm_ids), p.prior_alpha)
             be == DefaultTouch(p.beta, RangeOf(arm_ids), p.prior_beta)
             samples == [i \in 1..Len(arm_ids) |->
                            RngBeta(p.rng, al[arm_ids[i]], be[arm_ids[i]])]
         IN  Returned([p EXCEPT !.rng = RngNext(p.rng), !.alpha = al, !.beta = be],
                      arm_ids[ScanBest(samples, 2, 1)])

ThompsonSamplingSelect(p, arm_ids) ==
    IF Len(arm_ids) = 0 THEN Raised(p)
    ELSE LET al == DefaultTouch(p.alpha, RangeOf(arm_ids), p.prior_alpha)
             be == DefaultTouch(p.beta, RangeOf(arm_ids), p.prior_beta)
             samples == [i \in 1..Len(arm_ids) |->
                            RngBeta(RngAfter(p.rng, i - 1), al[arm_ids[i]], be[arm_ids[i]])]
         IN  Returned([p EXCEPT !.rng = RngAfter(p.rng, Len(arm_ids)),
                                !.alpha = al, !.beta = be],
                      arm_ids[ScanBest(samples, 2, 1)])

ThompsonSamplingUpdateAlways(p, arm_id, reward) ==
    [p EXCEPT !.alpha = DictSet(@, arm_id, DefaultGet(@, arm_id, p.prior_alpha) + reward),
              !.beta = DictSet(@, arm_id, DefaultGet(@, arm_id, p.prior_beta) + 1)]

ThompsonSamplingUpdateReset(p, arm_id, reward) ==
    [p EXCEPT !.alpha = DictSet(@, arm_id, p.prior_alpha + reward),
              !.beta = DictSet(@, arm_id, p.prior_beta + (1 - reward))]

ThompsonSamplingUpdate(p, arm_id, reward) ==
    [p EXCEPT !.alpha = DictSet(@, arm_id, DefaultGet(@, arm_id, p.prior_alpha) + reward),
              !.beta = DictSet(@, arm_id, DefaultGet(@, arm_id, p.prior_beta) + (1 - reward))]

EnsureDimLatest(p, x) == [p EXCEPT !.d = <<Len(x)>>]

\* LinUCB._ensure_dim
EnsureDim(p, x) == IF p.d = <<>> THEN [p EXCEPT !.d = <<Len(x)>>] ELSE p

\* LinUCB._init_arm
InitArm(p, arm_id) ==
    [p EXCEPT !.A = DictSet(@, arm_id, Eye(p.d[1])),
              !.b = DictSet(@, arm_id, Zeros(p.d[1]))]

\* "if arm not in self._A: self._init_arm(arm)"
InitIfUnseen(p, arm_id) == IF arm_id \in DOMAIN p.A THEN p ELSE InitArm(p, arm_id)

\* The score theta^T x + alpha * sqrt(x^T A^-1 x), theta = A^-1 b, kept exactly as
\* P / D + alpha * sqrt(Q / D) with D = det A > 0, P = x^T adj(A) b, Q = x^T adj(A) x.
Ucb(A, b, x) ==
    [P |-> Dot(MatVec(Adj(A), b), x), Q |-> Dot(x, MatVec(Adj(A), x)), D |-> Det(A)]

\* sqrt(X) - sqrt(Y) > K for integers X, Y >= 0 and K.
SqrtDiffGt(X, Y, K) ==
    IF K < 0
    THEN LET R == Y - X - K * K
         IN  R < 0 \/ 4 * K * K * X > R * R
    ELSE LET L == X - K * K - Y
         IN  L > 0 /\ L * L > 4 * K * K * Y

\* u > v for two scores under the exploration coefficient al.
UcbGt(u, v, al) ==
    SqrtDiffGt(al * al * v.D * v.D * u.Q * u.D,
               al * al * u.D * u.D * v.Q * v.D,
               u.D * v.P - v.D * u.P)

RECURSIVE LinUCBScanLast(_, _, _, _, _, _, _)
LinUCBScanLast(p, arm_ids, context, i, best_arm, hasBest, best_ucb) ==
    IF i > Len(arm_ids) THEN Returned(p, best_arm)
    ELSE LET arm == arm_ids[i]
         IN  IF arm \notin DOMAIN context THEN Raised(p)
             ELSE LET x == context[arm]
                      p2 == InitIfUnseen(EnsureDim(p, x), arm)
                      ucb == Ucb(p2.A[arm], p2.b[arm], x)
                  IN  IF ~CanSolve(p2.A[arm], x) THEN Raised(p2)
                      ELSE IF ~hasBest \/ ~UcbGt(best_ucb, ucb, p.ucb_alpha)
                      THEN LinUCBScanLast(p2, arm_ids, context, i + 1, arm, TRUE, ucb)
                      ELSE LinUCBScanLast(p2, arm_ids, context, i + 1, best_arm, hasBest, best_ucb)

\* The loop of LinUCB.select_arm from candidate i on; hasBest is FALSE while
\* best_ucb is still -inf.
RECURSIVE LinUCBScan(_, _, _, _, _, _, _)
LinUCBScan(p, arm_ids, context, i, best_arm, hasBest, best_ucb) ==
    IF i > Len(arm_ids) THEN Returned(p, best_arm)
    ELSE LET arm == arm_ids[i]
         IN  IF arm \notin DOMAIN context THEN Raised(p)
             ELSE LET x == context[arm]
                      p2 == InitIfUnseen(EnsureDim(p, x), arm)
                      ucb == Ucb(p2.A[arm], p2.b[arm], x)
                  IN  IF ~CanSolve(p2.A[arm], x) THEN Raised(p2)
                      ELSE IF ~hasBest \/ UcbGt(ucb, best_ucb, p.ucb_alpha)
                      THEN LinUCBScan(p2, arm_ids, context, i + 1, arm, TRUE, ucb)
                      ELSE LinUCBScan(p2, arm_ids, context, i + 1, best_arm, hasBest, best_ucb)

LinUCBSelect(p, arm_ids, context) ==
    IF context = NoContext THEN UniformPick(p, arm_ids)
    ELSE IF Len(arm_ids) = 0 THEN Raised(p)
    ELSE LinUCBScan(p, arm_ids, context[1], 1, arm_ids[1], FALSE, [P |-> 0, Q |-> 0, D |-> 1])

LinUCBUpdateInit(p, arm_id, reward, context) ==
    IF context = NoContext
    THEN Returned(IF p.d = <<>> THEN p ELSE InitIfUnseen(p, arm_id), None)
    ELSE LET x == context[1]
             p2 == InitIfUnseen(EnsureDim(p, x), arm_id)
             M == Outer(x, x)
             v == Scale(reward, x)
         IN  IF ~CanIAddMat(p2.A[arm_id], M) THEN Raised(p2)
             ELSE LET p3 == [p2 EXCEPT !.A = DictSet(@, arm_id, IAddMat(p2.A[arm_id], M))]
                  IN  IF ~CanIAddVec(p3.b[arm_id], v) THEN Raised(p3)
                      ELSE Returned([p3 EXCEPT !.b = DictSet(@, arm_id,
                                                    IAddVec(p3.b[arm_id], v))], None)

\* LinUCB.update: a no-op without context; with a vector whose length is not d,
\* the in-place additions broadcast a length-1 vector and raise on any other.
LinUCBUpdate(p, arm_id, reward, context) ==
    IF context = NoContext THEN Returned(p, None)
    ELSE LET x == context[1]
             p2 == InitIfUnseen(EnsureDim(p, x), arm_id)
             M == Outer(x, x)
             v == Scale(reward, x)
         IN  IF ~CanIAddMat(p2.A[arm_id], M) THEN Raised(p2)
             ELSE LET p3 == [p2 EXCEPT !.A = DictSet(@, arm_id, IAddMat(p2.A[arm_id], M))]
                  IN  IF ~CanIAddVec(p3.b[arm_id], v) THEN Raised(p3)
                      ELSE Returned([p3 EXCEPT !.b = DictSet(@, arm_id,
                                                    IAddVec(p3.b[arm_id], v))], None)

\* A BanditAlgorithm subclass outside the package whose select_arm does not look
\* at arm_ids: it returns "B" whatever the candidates are.
FixedArmSelect(p, arm_ids) == Returned(p, "B")

\* policy.select_arm(arm_ids, context), dispatched on the policy's class.
SelectArm(p, arm_ids, context) ==
    CASE p.kind = "RandomChoice" -> RandomChoiceSelect(p, arm_ids)
      [] p.kind = "FixedArm" -> FixedArmSelect(p, arm_ids)
      [] p.kind = "EpsilonGreedy" -> EpsilonGreedySelect(p, arm_ids)
      [] p.kind = "ThompsonSampling" -> ThompsonSamplingSelect(p, arm_ids)
      [] p.kind = "LinUCB" -> LinUCBSelect(p, arm_ids, context)

RandomChoiceUpdateDraws(p, arm_id, reward) == [p EXCEPT !.rng = RngNext(p.rng)]

\* RandomChoice.update: the body is the docstring alone.
RandomChoiceUpdate(p, arm_id, reward) == p

\* policy.update(arm_id, reward, context), dispatched on the policy's class.
Update(p, arm_id, reward, context) ==
    CASE p.kind = "RandomChoice" -> Returned(RandomChoiceUpdate(p, arm_id, reward), None)
      [] p.kind = "FixedArm" -> Returned(p, None)
      [] p.kind = "EpsilonGreedy" -> Returned(EpsilonGreedyUpdate(p, arm_id, reward), None)
      [] p.kind = "ThompsonSampling" -> Returned(ThompsonSamplingUpdate(p, arm_id, reward), None)
      [] p.kind = "LinUCB" -> LinUCBUpdate(p, arm_id, reward, context)

NameOfBase(p) == "BanditAlgorithm"

\* BanditAlgorithm.name
Name(p) == p.kind

\* ------------------------------------------------------------------ state

VARIABLES
    inst,               \* the policy instances: instance id -> policy state
    inst0,              \* the instances as constructed (never changes)
    \* a policy called directly
    last,               \* the last direct call, with what each instance returned
    ncalls,             \* number of direct calls made
    updN,               \* per arm: number of direct update calls
    updSum,             \* per arm: sum of the rewards of the direct update calls
    prev,               \* the instances as they were before the last direct call
    nsel,               \* number of direct select_arm calls that returned
    streak,             \* number of direct select_arm calls since the last update
    updLog,             \* per arm: <<vector, reward>> of each returned update with context
    \* compare_algorithms and SimulationEngine.run
    loader,             \* data_loader._impressions: the list of rounds
    loader0,            \* the list of rounds as first handed over (never changes)
    algorithms,         \* the list handed to compare_algorithms: instance ids
    results,            \* compare_algorithms' results list
    ai,                 \* index in algorithms of the policy being run
    pc,                 \* where compare_algorithms / run() stands
    it,                 \* the list iterator of run()'s for loop: next index
    total_clicks,
    total_impressions,
    history,
    selected_arm,
    reward,
    calls,              \* every select_arm / update call the engines made, in order
    rerun               \* per later run() on the engine: was the policy reset before it

vars == <<inst, inst0, last, ncalls, updN, updSum, prev, nsel, streak, updLog,
          loader, loader0, algorithms, results, ai, pc, it, total_clicks,
          total_impressions, history, selected_arm, reward, calls, rerun>>

policyVars == <<last, ncalls, updN, updSum, prev, nsel, streak, updLog>>

engineVars == <<loader, loader0, algorithms, results, ai, pc, it, total_clicks,
                total_impressions, history, selected_arm, reward, calls, rerun>>

Ids == {1, 2}

Seeds == {0, 5}

\* The configurations a policy of each class is constructed with.
Configs(kind) ==
    CASE kind = "RandomChoice" -> {[eps |-> <<0, 1>>, al |-> 1, pa |-> 1, pb |-> 1]}
      [] kind = "EpsilonGreedy" -> {[eps |-> e, al |-> 1, pa |-> 1, pb |-> 1] : e \in Epsilons}
      [] kind = "ThompsonSampling" -> {[eps |-> <<0, 1>>, al |-> 1, pa |-> 1, pb |-> q] : q \in {1, 2}}
      [] kind = "LinUCB" -> {[eps |-> <<0, 1>>, al |-> a, pa |-> 1, pb |-> 1] : a \in {0, 1}}

Construct(kind, id, seed, c) == NewPolicy(kind, id, seed, c.eps, c.al, c.pa, c.pb)

NoCall == [op |-> "none", arm_ids |-> <<>>, context |-> NoContext, arm_id |-> None,
           reward |-> 0, ret |-> <<None, None>>, err |-> <<FALSE, FALSE>>]

\* ------------------------------------------------------------------ direct calls

\* Context mappings handed to select_arm: one vector of length 2 per candidate,
\* vectors of two lengths, and a mapping that lacks candidate B.
CtxMaps ==
    {("A" :> <<1, 0>>) @@ ("B" :> <<0, 1>>),
     ("A" :> <<1>>) @@ ("B" :> <<1, 0>>),
     ("A" :> <<0, 1>>)}

\* The context arguments tried on a policy: the classes other than LinUCB ignore
\* the argument, so one value besides None is tried on them.
SelectContexts(kind) ==
    IF kind = "LinUCB" THEN {Some(m) : m \in CtxMaps} \cup {NoContext}
    ELSE {Some(("A" :> <<1, 0>>) @@ ("B" :> <<0, 1>>)), NoContext}

UpdateContexts(kind) ==
    IF kind = "LinUCB" THEN {Some(x) : x \in Vectors} \cup {NoContext}
    ELSE {Some(<<1, 0>>), NoContext}

PolicyInit ==
    /\ \E kind \in Kinds, seed \in Seeds :
         \E c \in Configs(kind) :
            inst = [id \in Ids |-> Construct(kind, id, seed, c)]
    /\ inst0 = inst
    /\ last = NoCall
    /\ ncalls = 0
    /\ updN = [a \in Arms |-> 0]
    /\ updSum = [a \in Arms |-> 0]
    /\ prev = inst
    /\ nsel = 0
    /\ streak = 0
    /\ updLog = [a \in Arms |-> <<>>]
    /\ loader = <<>>
    /\ loader0 = <<>>
    /\ algorithms = <<>>
    /\ results = <<>>
    /\ ai = 1
    /\ pc = "idle"
    /\ it = 1
    /\ total_clicks = 0
    /\ total_impressions = 0
    /\ history = <<>>
    /\ selected_arm = None
    /\ reward = 0
    /\ calls = <<>>
    /\ rerun = <<>>

\* Both instances are handed the same select_arm call.
CallSelect(arm_ids, context) ==
    /\ pc = "idle"
    /\ ncalls < MaxCalls
    /\ LET out == [id \in Ids |-> SelectArm(inst[id], arm_ids, context)]
       IN  /\ inst' = [id \in Ids |-> out[id].st]
           /\ last' = [op |-> "select", arm_ids |-> arm_ids, context |-> context,
                       arm_id |-> None, reward |-> 0,
                       ret |-> <<out[1].ret, out[2].ret>>,
                       err |-> <<out[1].err, out[2].err>>]
           /\ nsel' = IF out[1].err THEN nsel ELSE nsel + 1
    /\ ncalls' = ncalls + 1
    /\ prev' = inst
    /\ streak' = streak + 1
    /\ UNCHANGED <<inst0, updN, updSum, updLog>>
    /\ UNCHANGED engineVars

\* Both instances are handed the same update call.
CallUpdate(arm_id, r, context) ==
    /\ pc = "idle"
    /\ ncalls < MaxCalls
    /\ LET out == [id \in Ids |-> Update(inst[id], arm_id, r, context)]
       IN  /\ inst' = [id \in Ids |-> out[id].st]
           /\ last' = [op |-> "update", arm_ids |-> <<>>, context |-> context,
                       arm_id |-> arm_id, reward |-> r,
                       ret |-> <<None, None>>,
                       err |-> <<out[1].err, out[2].err>>]
           /\ updLog' = IF context = NoContext \/ out[1].err THEN updLog
                         ELSE [updLog EXCEPT ![arm_id] = Append(@, <<context[1], r>>)]
    /\ ncalls' = ncalls + 1
    /\ updN' = [updN EXCEPT ![arm_id] = @ + 1]
    /\ updSum' = [updSum EXCEPT ![arm_id] = @ + r]
    /\ prev' = inst
    /\ streak' = 0
    /\ UNCHANGED <<inst0, nsel>>
    /\ UNCHANGED engineVars

PolicyNext ==
    \/ \E arm_ids \in CandLists \cup {<<>>}, context \in SelectContexts(inst[1].kind) :
          CallSelect(arm_ids, context)
    \/ \E arm_id \in Arms, r \in {0, 1}, context \in UpdateContexts(inst[1].kind) :
          CallUpdate(arm_id, r, context)

PolicySpec == PolicyInit /\ [][PolicyNext]_vars

\* ------------------------------------------------------------------ the engine

\* A round: a user id, a non-empty candidate list, a click label for every
\* candidate and, as MINDDataLoader builds them, a "contexts" mapping (NoContext:
\* the round has no such key, as in the rounds the tests build).
Round(u, c, r, x) == [user_id |-> u, candidates |-> c, rewards |-> r, contexts |-> x]

BothContexts == Some(("A" :> <<1, 0>>) @@ ("B" :> <<0, 1>>))

\* The rounds a loader may hold.
Rounds ==
    {Round("U0", <<"A", "B">>, ("A" :> 1) @@ ("B" :> 0), NoContext),
     Round("U1", <<"A", "B">>, ("A" :> 0) @@ ("B" :> 1), BothContexts),
     Round("U1", <<"B", "A">>, ("A" :> 1) @@ ("B" :> 0), BothContexts),
     Round("U0", <<"B", "A">>, ("A" :> 0) @@ ("B" :> 0), NoContext),
     Round("U0", <<"A">>, ("A" :> 1), Some(("A" :> <<1, 0>>))),
     Round("U1", <<"B">>, ("B" :> 0), NoContext)}

\* The instances a comparison is run on: instance 1 of any class, instance 2 an
\* EpsilonGreedy or of the class of instance 1, all with the seed of the run.
Init ==
    /\ \E k1 \in Kinds, seed \in Seeds :
         \E k2 \in {k1, "EpsilonGreedy"} :
            inst = [id \in Ids |->
                      IF id = 1
                      THEN NewPolicy(k1, 1, seed, <<1, 2>>, 1, 1, 1)
                      ELSE NewPolicy(k2, 2, seed, <<0, 1>>, 1, 1, 2)]
    /\ inst0 = inst
    /\ last = NoCall
    /\ ncalls = 0
    /\ updN = [a \in Arms |-> 0]
    /\ updSum = [a \in Arms |-> 0]
    /\ prev = inst
    /\ nsel = 0
    /\ streak = 0
    /\ updLog = [a \in Arms |-> <<>>]
    /\ loader \in SeqsUpTo(Rounds, MaxRounds)
    /\ loader0 = loader
    /\ algorithms \in SeqsUpTo(Ids, MaxAlgos)
    /\ results = <<>>
    /\ ai = 1
    /\ pc = "compare"
    /\ it = 1
    /\ total_clicks = 0
    /\ total_impressions = 0
    /\ history = <<>>
    /\ selected_arm = None
    /\ reward = 0
    /\ calls = <<>>
    /\ rerun = <<>>

StoreShared(heap, id, st) ==
    [j \in DOMAIN heap |->
        IF heap[j].kind = st.kind
        THEN [st EXCEPT !.rng = IF j = id THEN st.rng ELSE heap[j].rng,
                        !.epsilon = heap[j].epsilon,
                        !.prior_alpha = heap[j].prior_alpha,
                        !.prior_beta = heap[j].prior_beta,
                        !.ucb_alpha = heap[j].ucb_alpha]
        ELSE heap[j]]

StoreOnCopy(heap, id, st) == heap

\* A call changes the state of the instance it is made on: each instance holds
\* its own dicts and generator, created in __init__.
Store(heap, id, st) == [heap EXCEPT ![id] = st]

SelectContextPassed(impression) == impression["contexts"]

\* The context argument of the engine's select_arm call: the call is
\* select_arm(candidates), so the parameter takes its default, None.
SelectContext(impression) == NoContext

\* The context argument of the engine's update call: update(selected_arm, reward).
UpdateContext(impression, arm) == NoContext

DrainRounds(rounds, i) == IF i = Len(rounds) THEN <<>> ELSE rounds

TruncateRounds(rounds, i) == SubSeq(rounds, 1, i)

\* What the run leaves of the list it iterates over, after reading element i.
KeepRounds(rounds, i) == rounds

RewardOfFirst(impression, arm) == impression["rewards"][impression["candidates"][1]]

\* reward = rewards[selected_arm]
RewardOf(impression, arm) == impression["rewards"][arm]

HistoryRecordZeroBased(n, user_id, arm, r) ==
    [round |-> n - 1, user_id |-> user_id, selected_arm |-> arm, reward |-> r]

\* The record appended to the history, n being total_impressions after its increment.
HistoryRecord(n, user_id, arm, r) ==
    [round |-> n, user_id |-> user_id, selected_arm |-> arm, reward |-> r]

IntOfFloor(r) == 0

\* int(reward) for a reward of 0.0 or 1.0.
IntOf(r) == r

RECURSIVE Gcd(_, _)
Gcd(a, b) == IF b = 0 THEN a ELSE Gcd(b, a % b)

\* total_clicks / total_impressions: the quotient in lowest terms.
Quotient(n, m) == <<n \div Gcd(n, m), m \div Gcd(n, m)>>

ClickThroughRateUnguarded(clicks, impressions) ==
    IF impressions > 0 THEN Quotient(clicks, impressions) ELSE <<0, 0>>

\* click_through_rate at the end of run(); 0.0 is <<0, 1>>.
ClickThroughRate(clicks, impressions) ==
    IF impressions > 0 THEN Quotient(clicks, impressions) ELSE <<0, 1>>

\* compare_algorithms: "for algorithm in algorithms: engine = SimulationEngine(...)",
\* and the head of engine.run().
CompareNext ==
    /\ pc = "compare"
    /\ ai <= Len(algorithms)
    /\ pc' = "loop"
    /\ it' = 1
    /\ total_clicks' = 0
    /\ total_impressions' = 0
    /\ history' = <<>>
    /\ UNCHANGED <<inst, inst0, loader, loader0, algorithms, results, ai,
                   selected_arm, reward, calls>>
    /\ UNCHANGED policyVars
    /\ UNCHANGED rerun

\* run(): the next impression and selected_arm = select_arm(candidates).
RoundSelect ==
    /\ pc = "loop"
    /\ it <= Len(loader)
    /\ LET impression == loader[it]
           id == algorithms[ai]
           context == SelectContext(impression)
           out == SelectArm(inst[id], impression["candidates"], context)
       IN  /\ inst' = Store(inst, id, out.st)
           /\ selected_arm' = out.ret
           /\ pc' = IF out.err THEN "raised" ELSE "selected"
           /\ calls' = Append(calls, [ai |-> ai, id |-> id, round |-> it, op |-> "select",
                                      arm_ids |-> impression["candidates"],
                                      context |-> context, arm |-> out.ret,
                                      reward |-> 0, err |-> out.err])
    /\ loader' = KeepRounds(loader, it)
    /\ it' = it + 1
    /\ UNCHANGED <<inst0, loader0, algorithms, results, ai, total_clicks,
                   total_impressions, history, reward>>
    /\ UNCHANGED policyVars
    /\ UNCHANGED rerun

\* run(): reward = rewards[selected_arm]; update(selected_arm, reward).
RoundUpdate ==
    /\ pc = "selected"
    /\ LET impression == loader[it - 1]
           id == algorithms[ai]
       IN  IF selected_arm \notin DOMAIN impression["rewards"]
           THEN /\ pc' = "raised"
                /\ UNCHANGED <<inst, reward, calls>>
           ELSE LET r == RewardOf(impression, selected_arm)
                    context == UpdateContext(impression, selected_arm)
                    out == Update(inst[id], selected_arm, r, context)
                IN  /\ reward' = r
                    /\ inst' = Store(inst, id, out.st)
                    /\ pc' = IF out.err THEN "raised" ELSE "updated"
                    /\ calls' = Append(calls, [ai |-> ai, id |-> id, round |-> it - 1,
                                               op |-> "update", arm_ids |-> <<>>,
                                               context |-> context, arm |-> selected_arm,
                                               reward |-> r, err |-> out.err])
    /\ UNCHANGED <<inst0, loader, loader0, algorithms, results, ai, it, total_clicks,
                   total_impressions, history, selected_arm>>
    /\ UNCHANGED policyVars
    /\ UNCHANGED rerun

\* run(): the counters and the history record of the round.
RoundRecord ==
    /\ pc = "updated"
    /\ total_impressions' = total_impressions + 1
    /\ total_clicks' = total_clicks + IntOf(reward)
    /\ history' = Append(history, HistoryRecord(total_impressions + 1,
                                                 loader[it - 1]["user_id"],
                                                 selected_arm, reward))
    /\ pc' = "loop"
    /\ UNCHANGED <<inst, inst0, loader, loader0, algorithms, results, ai, it,
                   selected_arm, reward, calls>>
    /\ UNCHANGED policyVars
    /\ UNCHANGED rerun

\* run(): the list is exhausted; the result record goes to compare_algorithms'
\* results list.
RunReturn ==
    /\ pc = "loop"
    /\ it > Len(loader)
    /\ results' = Append(results,
                         [algorithm |-> Name(inst[algorithms[ai]]),
                          total_impressions |-> total_impressions,
                          total_clicks |-> total_clicks,
                          click_through_rate |->
                              ClickThroughRate(total_clicks, total_impressions),
                          history |-> history])
    /\ ai' = ai + 1
    /\ pc' = "compare"
    /\ UNCHANGED <<inst, inst0, loader, loader0, algorithms, it, total_clicks,
                   total_impressions, history, selected_arm, reward, calls>>
    /\ UNCHANGED policyVars
    /\ UNCHANGED rerun

\* compare_algorithms: return results.
CompareReturn ==
    /\ pc = "compare"
    /\ ai > Len(algorithms)
    /\ pc' = "returned"
    /\ UNCHANGED <<inst, inst0, loader, loader0, algorithms, results, ai, it,
                   total_clicks, total_impressions, history, selected_arm, reward, calls>>
    /\ UNCHANGED policyVars
    /\ UNCHANGED rerun

\* engine.run() of a fresh engine on policy p over the list rounds, from round k
\* on, as one evaluation: the result record.
RECURSIVE RunFrom(_, _, _, _, _, _)
RunFrom(p, rounds, k, clicks, impressions, hist) ==
    IF k > Len(rounds)
    THEN [algorithm |-> Name(p),
          total_impressions |-> impressions,
          total_clicks |-> clicks,
          click_through_rate |-> ClickThroughRate(clicks, impressions),
          history |-> hist]
    ELSE LET impression == rounds[k]
             sel == SelectArm(p, impression["candidates"], SelectContext(impression))
             r == RewardOf(impression, sel.ret)
             upd == Update(sel.st, sel.ret, r, UpdateContext(impression, sel.ret))
         IN  RunFrom(upd.st, rounds, k + 1, clicks + IntOf(r), impressions + 1,
                     Append(hist, HistoryRecord(impressions + 1, impression["user_id"],
                                                sel.ret, r)))

RunAlone(p, rounds) == RunFrom(p, rounds, 1, 0, 0, <<>>)

Next ==
    \/ CompareNext
    \/ RoundSelect
    \/ RoundUpdate
    \/ RoundRecord
    \/ RunReturn
    \/ CompareReturn

Spec == Init /\ [][Next]_vars

\* One engine on policy algorithms[1], run() invoked on it more than once.
RerunInit == Init /\ Len(algorithms) = 1

\* engine.run() on an engine whose run() has returned, the caller having first
\* put the policy back to its state as constructed (reset) or not: run() starts
\* from its own fresh locals and the same policy object and loader.
RunAgain(reset) ==
    /\ pc = "compare"
    /\ ai = 2
    /\ Len(algorithms) = 1
    /\ Len(rerun) < MaxReruns
    /\ rerun' = Append(rerun, reset)
    /\ inst' = IF reset THEN Store(inst, algorithms[1], inst0[algorithms[1]]) ELSE inst
    /\ ai' = 1
    /\ pc' = "loop"
    /\ it' = 1
    /\ total_clicks' = 0
    /\ total_impressions' = 0
    /\ history' = <<>>
    /\ UNCHANGED <<inst0, loader, loader0, algorithms, results, selected_arm, reward, calls>>
    /\ UNCHANGED policyVars

RerunNext ==
    \/ Next
    \/ \E reset \in BOOLEAN : RunAgain(reset)

RerunSpec == RerunInit /\ [][RerunNext]_vars

\* The comparisons of Init whose policies are constructed with seed 0.
LiveInit == Init /\ inst[1].rng = DefaultRng(0, 1)

\* compare_algorithms runs in one thread: a statement that can execute does.
LiveSpec == LiveInit /\ [][Next]_vars /\ WF_vars(Next)

\* Rounds as a loader other than MINDDataLoader may hand them over: a well-formed
\* one, one without candidates, one whose rewards lack candidate "B", and one
\* whose rewards cover "B" although it is no candidate.
FaultRounds ==
    {Round("U0", <<"A", "B">>, ("A" :> 1) @@ ("B" :> 0), NoContext),
     Round("U1", <<>>, EmptyDict, NoContext),
     Round("U0", <<"A", "B">>, ("A" :> 1), NoContext),
     Round("U1", <<"A">>, ("A" :> 1) @@ ("B" :> 0), NoContext)}

\* A comparison over such rounds: instance 1 of any class of the package or a
\* FixedArm, instance 2 an EpsilonGreedy that never explores.
FaultInit ==
    /\ \E k1 \in Kinds \cup {"FixedArm"}, seed \in Seeds :
            inst = [id \in Ids |->
                      IF id = 1
                      THEN NewPolicy(k1, 1, seed, <<1, 2>>, 1, 1, 1)
                      ELSE NewPolicy("EpsilonGreedy", 2, seed, <<0, 1>>, 1, 1, 1)]
    /\ inst0 = inst
    /\ last = NoCall
    /\ ncalls = 0
    /\ updN = [a \in Arms |-> 0]
    /\ updSum = [a \in Arms |-> 0]
    /\ prev = inst
    /\ nsel = 0
    /\ streak = 0
    /\ updLog = [a \in Arms |-> <<>>]
    /\ loader \in SeqsUpTo(FaultRounds, MaxRounds)
    /\ loader0 = loader
    /\ algorithms \in SeqsUpTo(Ids, MaxAlgos)
    /\ results = <<>>
    /\ ai = 1
    /\ pc = "compare"
    /\ it = 1
    /\ total_clicks = 0
    /\ total_impressions = 0
    /\ history = <<>>
    /\ selected_arm = None
    /\ reward = 0
    /\ calls = <<>>
    /\ rerun = <<>>

\* The policies of the package called directly, and comparisons over rounds of
\* any loader.
FaultOrPolicyInit == FaultInit \/ PolicyInit

FaultNext == Next \/ PolicyNext

FaultSpec == FaultOrPolicyInit /\ [][FaultNext]_vars

\* A policy is driven either by a client's direct calls or by a comparison.
AnyInit == Init \/ PolicyInit

AnyNext == Next \/ PolicyNext

AnySpec == AnyInit /\ [][AnyNext]_vars

\* ------------------------------------------------------------------ claims

\* The calls of kind op that the i-th run of the comparison made, in order.
CallsOf(i, op) == SelectSeq(calls, LAMBDA c : c.ai = i /\ c.op = op)

\* A context mapping that select_arm cannot score: a candidate has no vector, or a
\* vector's length is not the dimensionality d the policy holds.
Malformed(context, arm_ids, d) ==
    \E i \in 1..Len(arm_ids) :
        \/ arm_ids[i] \notin DOMAIN context
        \/ d # <<>> /\ Len(context[arm_ids[i]]) # d[1]

\* C1: closure.  A select_arm call on a non-empty candidate list, made on a policy
\* of any of the four classes in any state that select_arm / update calls lead to,
\* with or without context, returns an element of the list, and the only
\* candidate of a one-element list; it raises only for a LinUCB handed a context
\* mapping it cannot score.
C1_Closure ==
    (last.op = "select" /\ Len(last.arm_ids) > 0) =>
        \A id \in Ids :
            /\ ~last.err[id] => last.ret[id] \in RangeOf(last.arm_ids)
            /\ (~last.err[id] /\ Len(last.arm_ids) = 1) => last.ret[id] = last.arm_ids[1]
            /\ last.err[id] =>
                  /\ inst[id].kind = "LinUCB"
                  /\ last.context # NoContext
                  /\ Malformed(last.context[1], last.arm_ids, inst[id].d)

\* A LinUCB that has been updated is handed two candidates with a context
\* mapping and returns the second of them.
C1_Witness ==
    /\ inst[1].kind = "LinUCB"
    /\ inst[1].A # EmptyDict
    /\ last.op = "select"
    /\ last.context # NoContext
    /\ Len(last.arm_ids) = 2
    /\ ~last.err[1]
    /\ last.ret[1] = last.arm_ids[2]

\* C2: every result record of a run over the n rounds of the loader has
\* total_impressions = n and a history of n records in round order, the k-th with
\* round = k, the user id of round k, the arm select_arm returned in round k and
\* the reward the round gives that arm.
C2_History ==
    \A i \in 1..Len(results) :
        LET res == results[i]
            sel == CallsOf(i, "select")
        IN  /\ res.total_impressions = Len(loader0)
            /\ Len(res.history) = Len(loader0)
            /\ Len(sel) = Len(loader0)
            /\ \A k \in 1..Len(res.history) :
                  /\ res.history[k].round = k
                  /\ res.history[k].user_id = loader0[k].user_id
                  /\ res.history[k].selected_arm = sel[k].arm
                  /\ res.history[k].reward = loader0[k].rewards[sel[k].arm]

\* A run over two rounds of different users has returned, with a click in the
\* second round only.
C2_Witness ==
    /\ Len(results) >= 1
    /\ Len(results[1].history) = 2
    /\ results[1].history[1].user_id # results[1].history[2].user_id
    /\ results[1].history[1].reward = 0
    /\ results[1].history[2].reward = 1

\* The rounds of the i-th run in which the arm select_arm returned has reward 1.
ClickedRounds(i) ==
    LET sel == CallsOf(i, "select")
    IN  {k \in 1..Len(sel) : loader0[k].rewards[sel[k].arm] = 1}

\* C3: in every result record total_clicks is the number of rounds whose selected
\* arm had reward 1, so 0 <= total_clicks <= total_impressions;
\* click_through_rate is total_clicks / total_impressions when total_impressions
\* > 0 and 0.0 otherwise; an empty round sequence gives 0, 0, 0.0 and an empty
\* history.
C3_Clicks ==
    \A i \in 1..Len(results) :
        LET res == results[i]
            ctr == res.click_through_rate
        IN  /\ res.total_clicks = Cardinality(ClickedRounds(i))
            /\ 0 <= res.total_clicks
            /\ res.total_clicks <= res.total_impressions
            /\ ctr[2] > 0
            /\ res.total_impressions > 0 =>
                  ctr[1] * res.total_impressions = res.total_clicks * ctr[2]
            /\ res.total_impressions = 0 => ctr = <<0, 1>>
            /\ Len(loader0) = 0 =>
                  /\ res.total_impressions = 0
                  /\ res.total_clicks = 0
                  /\ ctr = <<0, 1>>
                  /\ res.history = <<>>

\* Two result records: one of a run with one click in two rounds, one of a run
\* over the same rounds with none.
C3_Witness ==
    /\ Len(results) = 2
    /\ results[1].total_impressions = 2
    /\ results[1].total_clicks = 1
    /\ results[1].click_through_rate = <<1, 2>>
    /\ results[2].total_clicks = 0

\* C4: the calls an engine makes on its policy alternate select_arm, update: every
\* update directly follows the select_arm of its round, and carries the arm that
\* select_arm returned and the reward the round gives that arm; a completed run
\* has made one update per round.
C4_UpdateFollowsSelect ==
    /\ \A j \in 1..Len(calls) :
          IF j % 2 = 1
          THEN calls[j].op = "select"
          ELSE /\ calls[j].op = "update"
               /\ calls[j].ai = calls[j - 1].ai
               /\ calls[j].round = calls[j - 1].round
               /\ calls[j].arm = calls[j - 1].arm
               /\ calls[j].arm \in RangeOf(loader0[calls[j].round].candidates)
               /\ calls[j].reward = loader0[calls[j].round].rewards[calls[j].arm]
    /\ \A j \in 1..(Len(calls) - 1) :
          calls[j].op = "select" => calls[j + 1].op = "update"
    /\ pc = "selected" <=> Len(calls) % 2 = 1
    /\ \A i \in 1..Len(results) :
          /\ Len(CallsOf(i, "update")) = Len(loader0)
          /\ \A k \in 1..Len(loader0) : CallsOf(i, "update")[k].round = k

\* A policy selected the second candidate, whose reward differs from the first
\* candidate's, and has been updated with it.
C4_Witness ==
    /\ pc = "updated"
    /\ Len(loader0[it - 1].candidates) = 2
    /\ selected_arm = loader0[it - 1].candidates[2]
    /\ reward = 1
    /\ calls[Len(calls)].op = "update"
    /\ calls[Len(calls)].reward = 1

\* The context vector of arm in a round, absent when the round carries none.
ArmContext(impression, arm) ==
    IF impression.contexts = NoContext \/ arm \notin DOMAIN impression.contexts[1]
    THEN NoContext
    ELSE Some(impression.contexts[1][arm])

\* C5: in each round the engine calls select_arm with the round's candidates and
\* the round's context mapping, and then update with the selected arm, its reward
\* and, when the round carries context, the context vector of the selected arm;
\* update gets no context only when select_arm got none in that round.
C5_ContextPassed ==
    \A j \in 1..Len(calls) :
        LET impression == loader0[calls[j].round]
        IN  IF calls[j].op = "select"
            THEN /\ calls[j].arm_ids = impression.candidates
                 /\ calls[j].context = impression.contexts
            ELSE /\ calls[j].arm = calls[j - 1].arm
                 /\ calls[j].reward = impression.rewards[calls[j].arm]
                 /\ calls[j].context = ArmContext(impression, calls[j].arm)
                 /\ calls[j].context = NoContext => calls[j - 1].context = NoContext

\* C6: compare_algorithms returns one result record per policy of its list, the
\* i-th named after the i-th policy, each with total_impressions = the number of
\* rounds; an empty list returns an empty list.
C6_OneResultPerPolicy ==
    /\ Len(results) <= Len(algorithms)
    /\ \A i \in 1..Len(results) :
          /\ results[i].algorithm = inst0[algorithms[i]].kind
          /\ results[i].total_impressions = Len(loader0)
    /\ pc = "returned" =>
          /\ Len(results) = Len(algorithms)
          /\ algorithms = <<>> => results = <<>>

\* A comparison of two policies of different classes over two rounds has returned.
C6_Witness ==
    /\ pc = "returned"
    /\ Len(algorithms) = 2
    /\ Len(loader0) = 2
    /\ results[1].algorithm # results[2].algorithm

\* C7: fairness.  No run changes the list of rounds, and every run is presented
\* the rounds of the list in list order: its k-th select_arm gets the candidates
\* of round k, its k-th update the reward round k gives the selected arm, and
\* its k-th history record the user id of round k.
C7_SameRounds ==
    /\ loader = loader0
    /\ \A j \in 1..Len(calls) :
          /\ calls[j].round \in 1..Len(loader0)
          /\ calls[j].op = "select" =>
                calls[j].arm_ids = loader0[calls[j].round].candidates
          /\ calls[j].op = "update" =>
                calls[j].reward = loader0[calls[j].round].rewards[calls[j].arm]
    /\ \A i \in 1..Len(results) :
          /\ [k \in 1..Len(CallsOf(i, "select")) |-> CallsOf(i, "select")[k].arm_ids]
                = [k \in 1..Len(loader0) |-> loader0[k].candidates]
          /\ [k \in 1..Len(results[i].history) |-> results[i].history[k].user_id]
                = [k \in 1..Len(loader0) |-> loader0[k].user_id]

\* The second policy of a comparison is in its second round, over two rounds
\* with different candidate lists.
C7_Witness ==
    /\ ai = 2
    /\ pc = "selected"
    /\ it = 3
    /\ Len(loader0) = 2
    /\ loader0[1].candidates # loader0[2].candidates

\* C8: no cross-policy leakage.  When the policies of the list are distinct
\* instances, the result record of each is the record that policy, as
\* constructed, gets from an engine of its own over the same rounds.
C8_NoLeakage ==
    (\A i, j \in 1..Len(algorithms) : algorithms[i] = algorithms[j] => i = j) =>
        \A i \in 1..Len(results) :
            results[i] = RunAlone(inst0[algorithms[i]], loader0)

\* Two instances of one class were compared and got different histories.
C8_Witness ==
    /\ pc = "returned"
    /\ Len(algorithms) = 2
    /\ algorithms[1] # algorithms[2]
    /\ inst0[1].kind = inst0[2].kind
    /\ Len(loader0) = 2
    /\ results[1].history # results[2].history

C10_Accumulates ==
    \A id \in Ids :
        inst[id].kind = "EpsilonGreedy" =>
            \A a \in Arms :
                /\ DefaultGet(inst[id].pull_count, a, 0) = updN[a]
                /\ DefaultGet(inst[id].total_reward, a, 0) = updSum[a]

\* update("A", 1.0) was called twice and update("B", 0.0) once.
C10_Witness ==
    /\ inst[1].kind = "EpsilonGreedy"
    /\ updN["A"] = 2
    /\ updSum["A"] = 2
    /\ updN["B"] = 1
    /\ inst[1].pull_count["A"] = 2
    /\ inst[1].total_reward["A"] = 2
    /\ inst[1].pull_count["B"] = 1

\* The running mean reward of arm a in policy state p: total / count, 0.0 for an
\* arm never pulled.
MeanOf(p, a) ==
    IF DefaultGet(p.pull_count, a, 0) = 0 THEN <<0, 1>>
    ELSE <<DefaultGet(p.total_reward, a, 0), DefaultGet(p.pull_count, a, 0)>>

\* The draw of a select_arm call made in state p falls below epsilon.
Explores(p) == FracLt(RngRandom(p.rng), p.epsilon)

\* C11: an EpsilonGreedy select_arm that does not explore returns the candidate
\* with the highest running mean (0.0 for an arm never pulled, which takes part),
\* and of the candidates tied for the highest mean the first of the list.
C11_Exploit ==
    \A id \in Ids :
        ( /\ inst[id].kind = "EpsilonGreedy"
          /\ last.op = "select"
          /\ ~last.err[id]
          /\ ~Explores(prev[id]) ) =>
            \E k \in 1..Len(last.arm_ids) :
                /\ last.ret[id] = last.arm_ids[k]
                /\ \A j \in 1..Len(last.arm_ids) :
                      ~FracGt(MeanOf(prev[id], last.arm_ids[j]),
                              MeanOf(prev[id], last.arm_ids[k]))
                /\ \A j \in 1..(k - 1) :
                      FracGt(MeanOf(prev[id], last.arm_ids[k]),
                             MeanOf(prev[id], last.arm_ids[j]))

\* Both arms have mean 1.0 after one rewarded update each; select_arm(["B", "A"])
\* exploits and returns "B".
C11_Witness ==
    /\ inst[1].kind = "EpsilonGreedy"
    /\ last.op = "select"
    /\ ~Explores(prev[1])
    /\ last.arm_ids = <<"B", "A">>
    /\ MeanOf(prev[1], "A") = <<1, 1>>
    /\ MeanOf(prev[1], "B") = <<1, 1>>
    /\ last.ret[1] = "B"

\* Candidate a has a mean strictly above the mean of every other candidate.
StrictBest(p, arm_ids, a) ==
    /\ a \in RangeOf(arm_ids)
    /\ \A other \in RangeOf(arm_ids) \ {a} : FracGt(MeanOf(p, a), MeanOf(p, other))

\* C12: an EpsilonGreedy with epsilon = 0 never explores: every select_arm call
\* makes the one draw of the test and no draw of an index, leaves every mean as
\* it was, and returns the candidate whose mean strictly exceeds every other
\* candidate's whenever there is one, however many calls came before it.
C12_GreedyStable ==
    \A id \in Ids :
        ( /\ inst[id].kind = "EpsilonGreedy"
          /\ inst[id].epsilon = <<0, 1>>
          /\ last.op = "select" ) =>
            /\ ~Explores(prev[id])
            /\ inst[id].rng = RngNext(prev[id].rng)
            /\ \A a \in Arms : MeanOf(inst[id], a) = MeanOf(prev[id], a)
            /\ \A a \in Arms :
                  StrictBest(prev[id], last.arm_ids, a) =>
                      ~last.err[id] /\ last.ret[id] = a

\* update("B", 1.0), then two select_arm calls in a row, the second one over
\* ["A", "B"] returning "B".
C12_Witness ==
    /\ inst[1].kind = "EpsilonGreedy"
    /\ inst[1].epsilon = <<0, 1>>
    /\ ncalls = 3
    /\ streak = 2
    /\ updN["B"] = 1
    /\ updSum["B"] = 1
    /\ last.arm_ids = <<"A", "B">>
    /\ last.ret[1] = "B"

\* The posterior parameters of arm a in policy state p, the prior for an arm
\* without an entry.
AlphaOf(p, a) == DefaultGet(p.alpha, a, p.prior_alpha)

BetaOf(p, a) == DefaultGet(p.beta, a, p.prior_beta)

\* C13: after any sequence of select_arm and update calls with rewards 0 and 1, a
\* ThompsonSampling holds for every arm alpha = prior_alpha + the number of its
\* updates with reward 1 and beta = prior_beta + the number of its updates with
\* reward 0, the prior itself for an arm never updated; an update leaves the
\* parameters of every other arm as they were.
C13_Posterior ==
    \A id \in Ids :
        inst[id].kind = "ThompsonSampling" =>
            /\ \A a \in Arms :
                  /\ AlphaOf(inst[id], a) = inst0[id].prior_alpha + updSum[a]
                  /\ BetaOf(inst[id], a) = inst0[id].prior_beta + (updN[a] - updSum[a])
                  /\ updN[a] = 0 =>
                        /\ AlphaOf(inst[id], a) = inst0[id].prior_alpha
                        /\ BetaOf(inst[id], a) = inst0[id].prior_beta
            /\ last.op = "update" =>
                  \A a \in Arms \ {last.arm_id} :
                      /\ AlphaOf(inst[id], a) = AlphaOf(prev[id], a)
                      /\ BetaOf(inst[id], a) = BetaOf(prev[id], a)

\* From the prior (1, 1): arm "A" was updated with 1.0 and with 0.0, arm "B"
\* with 0.0, giving (2, 2) and (1, 2).
C13_Witness ==
    /\ inst[1].kind = "ThompsonSampling"
    /\ inst[1].prior_alpha = 1
    /\ inst[1].prior_beta = 1
    /\ updN["A"] = 2
    /\ updSum["A"] = 1
    /\ updN["B"] = 1
    /\ updSum["B"] = 0
    /\ inst[1].alpha["A"] = 2
    /\ inst[1].beta["A"] = 2
    /\ inst[1].alpha["B"] = 1
    /\ inst[1].beta["B"] = 2

\* The posterior sample of the i-th candidate of a select_arm call made in state
\* p: the i-th draw of the call, from Beta(alpha[arm], beta[arm]).
SampleOf(p, arm_ids, i) ==
    RngBeta(RngAfter(p.rng, i - 1), AlphaOf(p, arm_ids[i]), BetaOf(p, arm_ids[i]))

\* C14: a ThompsonSampling select_arm makes one draw per candidate, in candidate
\* order, each from the Beta distribution of that candidate's parameters, and
\* returns a candidate whose sample no other sample of the call exceeds, the
\* earliest such candidate.
C14_MaxSample ==
    \A id \in Ids :
        ( /\ inst[id].kind = "ThompsonSampling"
          /\ last.op = "select"
          /\ ~last.err[id] ) =>
            /\ inst[id].rng = RngAfter(prev[id].rng, Len(last.arm_ids))
            /\ \E k \in 1..Len(last.arm_ids) :
                  /\ last.ret[id] = last.arm_ids[k]
                  /\ \A j \in 1..Len(last.arm_ids) :
                        ~FracGt(SampleOf(prev[id], last.arm_ids, j),
                                SampleOf(prev[id], last.arm_ids, k))
                  /\ \A j \in 1..(k - 1) :
                        FracGt(SampleOf(prev[id], last.arm_ids, k),
                               SampleOf(prev[id], last.arm_ids, j))

\* After update("A", 1.0) a select_arm over ["A", "B"] returns "B": the second
\* sample was the larger one although "A" has the better posterior.
C14_Witness ==
    /\ inst[1].kind = "ThompsonSampling"
    /\ last.op = "select"
    /\ AlphaOf(prev[1], "A") = 2
    /\ last.arm_ids = <<"A", "B">>
    /\ last.ret[1] = "B"
    /\ FracGt(SampleOf(prev[1], last.arm_ids, 2), SampleOf(prev[1], last.arm_ids, 1))

\* C15: RandomChoice.update changes nothing and makes no draw: the state of a
\* RandomChoice is the constructed one with the generator advanced by one draw
\* per returned select_arm, so the arm its k-th select_arm returns is fixed by
\* the seed, k and the candidate list, whatever update calls came in between.
C15_UpdateNoOp ==
    \A id \in Ids :
        inst[id].kind = "RandomChoice" =>
            /\ inst[id] = [inst0[id] EXCEPT !.rng = RngAfter(inst0[id].rng, nsel)]
            /\ last.op = "update" => (inst[id] = prev[id] /\ ~last.err[id])
            /\ (last.op = "select" /\ ~last.err[id]) =>
                  last.ret[id] =
                      last.arm_ids[RngIntegers(RngAfter(inst0[id].rng, nsel - 1),
                                               Len(last.arm_ids)) + 1]

\* select_arm, update, select_arm: the second select_arm, over two candidates,
\* has returned.
C15_Witness ==
    /\ inst[1].kind = "RandomChoice"
    /\ ncalls = 3
    /\ nsel = 2
    /\ streak = 1
    /\ last.op = "select"
    /\ Len(last.arm_ids) = 2
    /\ ~last.err[1]
    /\ last.ret[1] = last.arm_ids[2]

\* C16: a LinUCB call without context leaves d and every arm's (A, b) as they
\* were and initializes no arm: update without context changes nothing at all,
\* and select_arm without context returns the candidate at the index it draws,
\* whatever the stored models are.
C16_NoContextFrame ==
    \A id \in Ids :
        ( /\ inst[id].kind = "LinUCB"
          /\ last.op # "none"
          /\ last.context = NoContext ) =>
            /\ inst[id].d = prev[id].d
            /\ inst[id].A = prev[id].A
            /\ inst[id].b = prev[id].b
            /\ last.op = "update" => (inst[id] = prev[id] /\ ~last.err[id])
            /\ (last.op = "select" /\ Len(last.arm_ids) > 0) =>
                  /\ ~last.err[id]
                  /\ inst[id].rng = RngNext(prev[id].rng)
                  /\ last.ret[id] =
                        last.arm_ids[RngIntegers(prev[id].rng, Len(last.arm_ids)) + 1]

\* A LinUCB that has learned a reward for "B" only is handed ["A", "B"] without
\* context and returns "A".
C16_Witness ==
    /\ inst[1].kind = "LinUCB"
    /\ last.op = "select"
    /\ last.context = NoContext
    /\ last.arm_ids = <<"A", "B">>
    /\ DOMAIN prev[1].A = {"B"}
    /\ prev[1].b["B"] = <<1, 0>>
    /\ last.ret[1] = "A"

\* Matrices and vectors of the claim's own arithmetic: the n x n identity, the
\* zero vector, x x^T, r x and entrywise sums of equal shapes.
IdentityMat(n) == [i \in 1..n |-> [j \in 1..n |-> IF i = j THEN 1 ELSE 0]]

ZeroVec(n) == [i \in 1..n |-> 0]

XXT(x) == [i \in DOMAIN x |-> [j \in DOMAIN x |-> x[i] * x[j]]]

RX(r, x) == [i \in DOMAIN x |-> r * x[i]]

MatPlus(M, N) == [i \in DOMAIN M |-> [j \in DOMAIN M[i] |-> M[i][j] + N[i][j]]]

VecPlus(u, v) == [i \in DOMAIN u |-> u[i] + v[i]]

\* I + sum of xi xi^T and sum of ri xi over the first k entries <<xi, ri>> of log.
RECURSIVE SumXXT(_, _, _)
SumXXT(log, k, n) ==
    IF k = 0 THEN IdentityMat(n) ELSE MatPlus(SumXXT(log, k - 1, n), XXT(log[k][1]))

RECURSIVE SumRX(_, _, _)
SumRX(log, k, n) ==
    IF k = 0 THEN ZeroVec(n) ELSE VecPlus(SumRX(log, k - 1, n), RX(log[k][2], log[k][1]))

\* C17: a LinUCB update(arm, reward, x) with a vector x of the policy's
\* dimensionality (or the first vector it sees) returns with A[arm] = A0 + x x^T
\* and b[arm] = b0 + reward x, (A0, b0) being the arm's pair before the call, or
\* (identity, zero) for an unseen arm, and with every other arm's pair, present
\* or absent, as before; so an arm updated k times with such vectors holds
\* A = I + sum of xi xi^T and b = sum of ri xi.
C17_UpdateRule ==
    \A id \in Ids :
        inst[id].kind = "LinUCB" =>
            /\ ( /\ last.op = "update"
                 /\ last.context # NoContext
                 /\ prev[id].d \in {<<>>, <<Len(last.context[1])>>} ) =>
                    LET x == last.context[1]
                        arm == last.arm_id
                        seen == arm \in DOMAIN prev[id].A
                        A0 == IF seen THEN prev[id].A[arm] ELSE IdentityMat(Len(x))
                        b0 == IF seen THEN prev[id].b[arm] ELSE ZeroVec(Len(x))
                    IN  /\ ~last.err[id]
                        /\ inst[id].A[arm] = MatPlus(A0, XXT(x))
                        /\ inst[id].b[arm] = VecPlus(b0, RX(last.reward, x))
                        /\ DOMAIN inst[id].A = DOMAIN prev[id].A \cup {arm}
                        /\ DOMAIN inst[id].b = DOMAIN prev[id].b \cup {arm}
                        /\ \A a \in DOMAIN prev[id].A \ {arm} :
                              /\ inst[id].A[a] = prev[id].A[a]
                              /\ inst[id].b[a] = prev[id].b[a]
            /\ \A a \in Arms :
                  ( /\ Len(updLog[a]) > 0
                    /\ \A k \in 1..Len(updLog[a]) : <<Len(updLog[a][k][1])>> = inst[id].d ) =>
                      /\ inst[id].A[a] = SumXXT(updLog[a], Len(updLog[a]), inst[id].d[1])
                      /\ inst[id].b[a] = SumRX(updLog[a], Len(updLog[a]), inst[id].d[1])

\* Arm "A" was updated with ([1, 1], 1.0) and ([1, 0], 0.0), arm "B" with
\* ([1, 1], 1.0): A["A"] = [[3, 1], [1, 2]], b["A"] = [1, 1].
C17_Witness ==
    /\ inst[1].kind = "LinUCB"
    /\ Len(updLog["A"]) = 2
    /\ Len(updLog["B"]) = 1
    /\ inst[1].A["A"] = << <<3, 1>>, <<1, 2>> >>
    /\ inst[1].b["A"] = <<1, 1>>
    /\ inst[1].A["B"] = << <<2, 1>>, <<1, 2>> >>
    /\ inst[1].b["B"] = <<1, 1>>

\* The first context vector a LinUCB call looks at: update's vector, or the vector
\* of select_arm's first candidate; <<>> when the call looks at none.
FirstVector(call) ==
    IF call.context = NoContext THEN <<>>
    ELSE IF call.op = "update" THEN <<call.context[1]>>
    ELSE IF Len(call.arm_ids) > 0 /\ call.arm_ids[1] \in DOMAIN call.context[1]
    THEN <<call.context[1][call.arm_ids[1]]>>
    ELSE <<>>

\* C18: a LinUCB's d is unset when constructed and stays unset until a
\* select_arm or update call looks at a context vector; that call sets d to the
\* vector's length, and no later call changes it.  Every arm's A is d x d and
\* every b has length d, and no arm has a pair while d is unset.
C18_Dimension ==
    \A id \in Ids :
        inst[id].kind = "LinUCB" =>
            /\ ncalls = 0 => inst[id].d = <<>>
            /\ prev[id].d # <<>> => inst[id].d = prev[id].d
            /\ (prev[id].d = <<>> /\ FirstVector(last) = <<>>) => inst[id].d = <<>>
            /\ (prev[id].d = <<>> /\ FirstVector(last) # <<>>) =>
                  inst[id].d = <<Len(FirstVector(last)[1])>>
            /\ DOMAIN inst[id].A = DOMAIN inst[id].b
            /\ inst[id].d = <<>> => DOMAIN inst[id].A = {}
            /\ \A a \in DOMAIN inst[id].A :
                  /\ Len(inst[id].A[a]) = inst[id].d[1]
                  /\ \A i \in 1..Len(inst[id].A[a]) : Len(inst[id].A[a][i]) = inst[id].d[1]
                  /\ Len(inst[id].b[a]) = inst[id].d[1]

\* d was fixed at 2 by an earlier call; an update with a vector of length 1
\* returned, and d is still 2 with a 2 x 2 matrix for the arm.
C18_Witness ==
    /\ inst[1].kind = "LinUCB"
    /\ prev[1].d = <<2>>
    /\ last.op = "update"
    /\ last.context = Some(<<1>>)
    /\ ~last.err[1]
    /\ inst[1].d = <<2>>
    /\ Len(inst[1].A[last.arm_id]) = 2

\* The learned state of the count-based and the sampling policy is the same in
\* p and q: every arm's total, count, alpha and beta, read with their defaults.
SameStatistics(p, q) ==
    \A a \in Arms :
        /\ DefaultGet(p.total_reward, a, 0) = DefaultGet(q.total_reward, a, 0)
        /\ DefaultGet(p.pull_count, a, 0) = DefaultGet(q.pull_count, a, 0)
        /\ AlphaOf(p, a) = AlphaOf(q, a)
        /\ BetaOf(p, a) = BetaOf(q, a)

\* C19: select_arm does not mutate the learned state: after a select_arm call,
\* with any candidates and any context, an EpsilonGreedy's totals and counts, a
\* ThompsonSampling's alpha and beta, and a LinUCB's d and per-arm A and b are
\* what they were before the call; only the random source may have advanced.
C19_SelectFrame ==
    last.op = "select" =>
        \A id \in Ids :
            /\ SameStatistics(inst[id], prev[id])
            /\ inst[id].d = prev[id].d
            /\ inst[id].A = prev[id].A
            /\ inst[id].b = prev[id].b

\* From policy state p to q no statistic of arm a has decreased and no entry of
\* a has been removed.
Accumulated(p, q, a) ==
    /\ DefaultGet(q.pull_count, a, 0) >= DefaultGet(p.pull_count, a, 0)
    /\ DefaultGet(q.total_reward, a, 0) >= DefaultGet(p.total_reward, a, 0)
    /\ AlphaOf(q, a) >= AlphaOf(p, a)
    /\ BetaOf(q, a) >= BetaOf(p, a)
    /\ a \in DOMAIN p.pull_count => a \in DOMAIN q.pull_count
    /\ a \in DOMAIN p.total_reward => a \in DOMAIN q.total_reward
    /\ a \in DOMAIN p.alpha => a \in DOMAIN q.alpha
    /\ a \in DOMAIN p.beta => a \in DOMAIN q.beta

\* C20: arm statistics only accumulate.  In every step of a comparison's engine
\* runs and of any sequence of direct select_arm / update calls with rewards 0
\* and 1, no arm's EpsilonGreedy count or total and no arm's ThompsonSampling
\* alpha or beta decreases, and no arm's entry is removed.
C20_OnlyAccumulate ==
    [][\A id \in Ids : \A a \in Arms : Accumulated(inst[id], inst[id]', a)]_vars

\* An engine has updated a ThompsonSampling twice for one arm, once with a click
\* and once without: the arm holds alpha = prior + 1 and beta = prior + 1.
C20_Witness ==
    /\ pc = "updated"
    /\ total_impressions = 1
    /\ inst[algorithms[ai]].kind = "ThompsonSampling"
    /\ AlphaOf(inst[algorithms[ai]], selected_arm) = inst0[algorithms[ai]].prior_alpha + 1
    /\ BetaOf(inst[algorithms[ai]], selected_arm) = inst0[algorithms[ai]].prior_beta + 1

\* The engine's run has stopped with an error in the round of its j-th logged
\* call, a select_arm: no update call follows, the history has no record of the
\* round, and the run has no result record.
AbortedAt(j) ==
    /\ j = Len(calls)
    /\ pc \in {"selected", "raised"}
    /\ Len(history) = calls[j].round - 1
    /\ Len(results) < calls[j].ai

\* C21: when select_arm returns an id that is not among the round's candidates,
\* or for which the round's rewards have no entry, run() stops with an error in
\* that round: update is not called, no history record is appended, and no
\* result record is returned.
C21_AbortOnBadArm ==
    \A j \in 1..Len(calls) :
        ( /\ calls[j].op = "select"
          /\ ~calls[j].err
          /\ \/ calls[j].arm \notin RangeOf(loader0[calls[j].round].candidates)
             \/ calls[j].arm \notin DOMAIN loader0[calls[j].round].rewards ) =>
            AbortedAt(j)

\* C22: select_arm on an empty candidate list raises, for each of the four
\* policies, in every state, exploring or exploiting, with or without context,
\* and returns no value; an engine run that meets a round without candidates
\* stops there with an error, so a comparison that returned met no such round.
C22_EmptyCandidates ==
    /\ (last.op = "select" /\ last.arm_ids = <<>>) =>
          \A id \in Ids : last.err[id] /\ last.ret[id] = None
    /\ \A j \in 1..Len(calls) :
          ( /\ calls[j].op = "select"
            /\ calls[j].arm_ids = <<>>
            /\ inst[calls[j].id].kind \in Kinds ) =>
              /\ calls[j].err
              /\ calls[j].arm = None
              /\ pc = "raised"
              /\ AbortedAt(j)
    /\ (pc = "returned" /\ \A i \in 1..Len(algorithms) : inst[algorithms[i]].kind \in Kinds) =>
          (Len(algorithms) = 0 \/ \A k \in 1..Len(loader0) : loader0[k].candidates # <<>>)

\* An engine's policy has learned from a first round and is then handed a
\* round without candidates: the run has stopped in its second round.
C22_Witness ==
    /\ pc = "raised"
    /\ Len(calls) = 3
    /\ calls[3].op = "select"
    /\ calls[3].arm_ids = <<>>
    /\ calls[3].err
    /\ inst[calls[3].id].kind = "EpsilonGreedy"
    /\ Len(history) = 1
    /\ results = <<>>

\* The direct call handed a LinUCB holding dimensionality d a context vector of
\* another length: update's vector, or the vector of one of select_arm's
\* candidates.
WrongLength(call, d) ==
    /\ d # <<>>
    /\ call.context # NoContext
    /\ IF call.op = "update" THEN Len(call.context[1]) # d[1]
       ELSE \E i \in 1..Len(call.arm_ids) :
               /\ call.arm_ids[i] \in DOMAIN call.context[1]
               /\ Len(call.context[1][call.arm_ids[i]]) # d[1]

\* The pairs (A, b) that p holds are held unchanged by q.
ModelsKept(p, q) ==
    \A a \in DOMAIN p.A :
        /\ a \in DOMAIN q.A
        /\ q.A[a] = p.A[a]
        /\ q.b[a] = p.b[a]

\* C23: once d is fixed, a select_arm or update call that hands a LinUCB a
\* context vector of another length, length 1 included, raises, and no arm's A
\* or b has taken the vector in.
C23_MismatchRaises ==
    \A id \in Ids :
        (inst[id].kind = "LinUCB" /\ WrongLength(last, prev[id].d)) =>
            /\ last.err[id]
            /\ ModelsKept(prev[id], inst[id])

\* The dimensionality a LinUCB in state p works with when the first vector it
\* looks at is x.
DimOf(p, x) == IF p.d = <<>> THEN Len(x) ELSE p.d[1]

\* The context mapping gives every candidate a vector of the dimensionality n.
WellFormed(context, arm_ids, n) ==
    \A i \in 1..Len(arm_ids) :
        arm_ids[i] \in DOMAIN context /\ Len(context[arm_ids[i]]) = n

\* The score of arm for the vector x in state p: theta^T x + alpha sqrt(x^T A^-1 x)
\* with theta = A^-1 b, from the arm's (A, b) or (identity, zero) if it has none.
ScoreOf(p, arm, x) ==
    IF arm \in DOMAIN p.A THEN Ucb(p.A[arm], p.b[arm], x)
    ELSE Ucb(IdentityMat(Len(x)), ZeroVec(Len(x)), x)

\* C24: a LinUCB select_arm handed a context mapping with a vector of the
\* policy's dimensionality for every candidate returns the candidate of
\* maximal score theta^T x + alpha sqrt(x^T A^-1 x), theta = A^-1 b, an unseen
\* arm scored with A = identity and b = 0, and of the candidates of maximal
\* score the first of the list.
C24_MaxScore ==
    \A id \in Ids :
        ( /\ inst[id].kind = "LinUCB"
          /\ last.op = "select"
          /\ last.context # NoContext
          /\ Len(last.arm_ids) > 0
          /\ last.arm_ids[1] \in DOMAIN last.context[1]
          /\ WellFormed(last.context[1], last.arm_ids,
                        DimOf(prev[id], last.context[1][last.arm_ids[1]])) ) =>
            LET score(i) == ScoreOf(prev[id], last.arm_ids[i],
                                    last.context[1][last.arm_ids[i]])
                al == prev[id].ucb_alpha
            IN  /\ ~last.err[id]
                /\ \E k \in 1..Len(last.arm_ids) :
                      /\ last.ret[id] = last.arm_ids[k]
                      /\ \A j \in 1..Len(last.arm_ids) : ~UcbGt(score(j), score(k), al)
                      /\ \A j \in 1..(k - 1) : UcbGt(score(k), score(j), al)

\* With alpha = 1, arm "A" updated once with ([1, 0], 0.0) scores sqrt(1/2) on
\* [1, 0] and the unseen arm "B" scores 1 on [0, 1]: select_arm(["A", "B"])
\* returns "B".
C24_Witness ==
    /\ inst[1].kind = "LinUCB"
    /\ inst[1].ucb_alpha = 1
    /\ last.op = "select"
    /\ last.arm_ids = <<"A", "B">>
    /\ last.context = Some(("A" :> <<1, 0>>) @@ ("B" :> <<0, 1>>))
    /\ DOMAIN prev[1].A = {"A"}
    /\ prev[1].A["A"] = << <<2, 0>>, <<0, 1>> >>
    /\ prev[1].b["A"] = <<0, 0>>
    /\ last.ret[1] = "B"

\* The last direct call is one more update of an arm that has only ever been
\* updated with reward 1.0 and the same non-zero vector x of the policy's
\* dimensionality.
RepeatedReward(id) ==
    /\ inst[id].kind = "LinUCB"
    /\ last.op = "update"
    /\ last.context # NoContext
    /\ ~last.err[id]
    /\ last.reward = 1
    /\ <<Len(last.context[1])>> = inst[id].d
    /\ \E i \in 1..Len(last.context[1]) : last.context[1][i] # 0
    /\ \A k \in 1..Len(updLog[last.arm_id]) :
          updLog[last.arm_id][k] = <<last.context[1], 1>>

\* The predicted reward theta^T x = P / D of score u exceeds that of score v.
PredictionGt(u, v) == u.P * v.D > v.P * u.D

\* C25 as stated: each such update makes the arm's selection score
\* theta^T x + alpha sqrt(x^T A^-1 x) for x strictly larger than it was before
\* the update, and larger than the score of a never-updated arm for x, for any
\* alpha >= 0.
C25_ScoreGrows ==
    \A id \in Ids :
        RepeatedReward(id) =>
            LET x == last.context[1]
                after == ScoreOf(inst[id], last.arm_id, x)
                before == ScoreOf(prev[id], last.arm_id, x)
                fresh == Ucb(IdentityMat(Len(x)), ZeroVec(Len(x)), x)
            IN  /\ UcbGt(after, before, inst[id].ucb_alpha)
                /\ UcbGt(after, fresh, inst[id].ucb_alpha)

\* C25 as amended: each such update makes the arm's predicted reward theta^T x
\* for x strictly larger than it was before the update, and larger than that of
\* a never-updated arm; the selection score does the same when alpha = 0.
C25_PredictionGrows ==
    \A id \in Ids :
        RepeatedReward(id) =>
            LET x == last.context[1]
                after == ScoreOf(inst[id], last.arm_id, x)
                before == ScoreOf(prev[id], last.arm_id, x)
                fresh == Ucb(IdentityMat(Len(x)), ZeroVec(Len(x)), x)
            IN  /\ PredictionGt(after, before)
                /\ PredictionGt(after, fresh)
                /\ inst[id].ucb_alpha = 0 =>
                      /\ UcbGt(after, before, 0)
                      /\ UcbGt(after, fresh, 0)

\* With alpha = 1, the second update of "A" with ([1, 1], 1.0) takes the
\* prediction for [1, 1] from 2/3 to 4/5 while the score falls from
\* 2/3 + sqrt(2/3) to 4/5 + sqrt(2/5).
C25_Witness ==
    /\ RepeatedReward(1)
    /\ inst[1].ucb_alpha = 1
    /\ last.arm_id = "A"
    /\ last.context = Some(<<1, 1>>)
    /\ Len(updLog["A"]) = 2
    /\ ScoreOf(prev[1], "A", <<1, 1>>) = [P |-> 2, Q |-> 2, D |-> 3]
    /\ ScoreOf(inst[1], "A", <<1, 1>>) = [P |-> 4, Q |-> 2, D |-> 5]
    /\ UcbGt(ScoreOf(prev[1], "A", <<1, 1>>), ScoreOf(inst[1], "A", <<1, 1>>), 1)

\* The select_arm calls of the i-th run, in the order made.
SelectsOf(i) == SelectSeq(calls, LAMBDA c : c.ai = i /\ c.op = "select")

UpdatesOf(i) == SelectSeq(calls, LAMBDA c : c.ai = i /\ c.op = "update")

\* The n-th select_arm call of every run is for round n of the sequence, the
\* updates follow the same order, and a run that has returned has gone through
\* every round once.
RoundsInOrder ==
    \A i \in 1..Len(algorithms) :
        /\ Len(SelectsOf(i)) <= Len(loader0)
        /\ \A n \in 1..Len(SelectsOf(i)) :
              /\ SelectsOf(i)[n].round = n
              /\ SelectsOf(i)[n].arm_ids = loader0[n]["candidates"]
        /\ \A n \in 1..Len(UpdatesOf(i)) : UpdatesOf(i)[n].round = n
        /\ i <= Len(results) =>
              /\ Len(SelectsOf(i)) = Len(loader0)
              /\ Len(UpdatesOf(i)) = Len(loader0)
              /\ results[i].total_impressions = Len(loader0)
              /\ \A n \in 1..Len(loader0) :
                    /\ results[i].history[n].round = n
                    /\ results[i].history[n].user_id = loader0[n]["user_id"]

\* C26: every run goes through the rounds of its sequence once each, in source
\* order, returns its result record only after the last round, and every run
\* does return: the comparison eventually ends with one record per policy.
C26_LifeCycle ==
    /\ []RoundsInOrder
    /\ [](pc # "raised")
    /\ <>(pc = "returned" /\ Len(results) = Len(algorithms))

\* A run over two rounds has returned after its second round.
C26_Witness ==
    /\ pc = "returned"
    /\ Len(loader0) = 2
    /\ Len(results) >= 1
    /\ Len(SelectsOf(1)) = 2
    /\ results[1].history[2].round = 2

\* C27: once run() has completed, another run() on the same engine is rejected
\* unless the policy was first reset to its initial state, so every later run()
\* that returns a result followed a reset and returns the first run's result.
C27_RunOnce ==
    \A k \in 1..Len(rerun) :
        k < Len(results) => rerun[k] /\ results[k + 1] = results[1]

\* A later run() that followed a reset of the policy returns the first run's result.
RerunAfterReset ==
    \A k \in 1..Len(rerun) :
        k < Len(results) /\ rerun[k] => results[k + 1] = results[1]

\* The policy p as run() over rounds k.. of the list leaves it.
RECURSIVE PolicyAfter(_, _, _)
PolicyAfter(p, rounds, k) ==
    IF k > Len(rounds) THEN p
    ELSE LET impression == rounds[k]
             sel == SelectArm(p, impression["candidates"], NoContext)
             upd == Update(sel.st, sel.ret, impression["rewards"][sel.ret], NoContext)
         IN  PolicyAfter(upd.st, rounds, k + 1)

\* The policy that starts as p0 and stands for instance id, after the first n
\* runs of the comparison.
RECURSIVE StateBefore(_, _, _)
StateBefore(p0, id, n) ==
    IF n = 0 THEN p0
    ELSE LET p == StateBefore(p0, id, n - 1)
         IN  IF algorithms[n] = id THEN PolicyAfter(p, loader0, 1) ELSE p

Selections(h) == [n \in 1..Len(h) |-> h[n].selected_arm]

\* A RandomChoice constructed with the seed of p.
RandomChoiceLike(p) == [p EXCEPT !.kind = "RandomChoice"]

\* C28: driven by the engine, a LinUCB never has d set nor holds an (A, b) for
\* any arm, and the selections of each of its runs are those of a RandomChoice
\* constructed with the same seed and run over the same rounds in its place.
C28_LinUCBNeverLearns ==
    \A id \in Ids :
        inst[id].kind = "LinUCB" =>
            /\ inst[id].d = <<>>
            /\ inst[id].A = EmptyDict
            /\ inst[id].b = EmptyDict
            /\ \A i \in 1..Len(results) :
                  algorithms[i] = id =>
                      Selections(results[i].history) =
                          Selections(RunAlone(StateBefore(RandomChoiceLike(inst0[id]),
                                                          id, i - 1), loader0).history)

\* A LinUCB has been run over two rounds that carry contexts.
C28_Witness ==
    /\ Len(results) >= 1
    /\ inst[algorithms[1]].kind = "LinUCB"
    /\ Len(loader0) = 2
    /\ \A n \in 1..2 : loader0[n]["contexts"] # NoContext
    /\ Len(results[1].history) = 2
    /\ inst[algorithms[1]].d = <<>>

\* The sum of the values the dict f holds for the keys in S.
RECURSIVE SumOf(_, _)
SumOf(f, S) ==
    IF S = {} THEN 0
    ELSE LET a == CHOOSE k \in S : TRUE
         IN  f[a] + SumOf(f, S \ {a})

\* How many of the first n runs of the comparison were on instance id.
RunsOf(id, n) == Cardinality({i \in 1..n : algorithms[i] = id})

\* The runs completed so far: those with a result record.
RunsDone == Len(results)

\* C29: the runs of a comparison follow one another, each complete before the
\* next one's first select_arm; every run is made on the instance itself as the
\* earlier runs on it left it, statistics and generator included, never on a
\* copy or a reset instance: between runs, every result record is that of a run
\* started from the instance as left by its earlier runs, and each instance is
\* its constructed state put through all the rounds of each of its runs so far.
C29_NoCopyNoReset ==
    /\ \A j \in 1..Len(calls) :
          /\ j > 1 => calls[j - 1].ai <= calls[j].ai
          /\ calls[j].ai <= RunsDone + 1
          /\ calls[j].id = algorithms[calls[j].ai]
    /\ \A i \in 1..RunsDone : Len(UpdatesOf(i)) = Len(loader0)
    /\ pc \in {"compare", "returned"} =>
          /\ \A i \in 1..RunsDone :
                results[i] = RunAlone(StateBefore(inst0[algorithms[i]], algorithms[i], i - 1),
                                      loader0)
          /\ \A id \in Ids :
                /\ inst[id] = StateBefore(inst0[id], id, RunsDone)
                /\ inst[id].kind = "EpsilonGreedy" =>
                      SumOf(inst[id].pull_count, DOMAIN inst[id].pull_count) =
                          Len(loader0) * RunsOf(id, RunsDone)

\* The same instance was run twice and its second result differs from its first.
C29_Witness ==
    /\ pc = "returned"
    /\ algorithms = <<1, 1>>
    /\ Len(results) = 2
    /\ results[1] # results[2]
    /\ inst[1] # inst0[1]
    /\ inst[1] = PolicyAfter(PolicyAfter(inst0[1], loader0, 1), loader0, 1)

\* The run in progress is the first one on its policy instance.
FirstRunInProgress ==
    /\ pc \in {"loop", "selected", "updated"}
    /\ RunsOf(algorithms[ai], ai - 1) = 0

\* The sum over the arms of dict f of what was added to the value "prior".
GainOf(f, prior) == SumOf(f, DOMAIN f) - prior * Cardinality(DOMAIN f)

\* The rounds whose update has returned and the clicks among them: the run's
\* counters, which run() increments right after the update of a round.
RoundsUpdated == IF pc = "updated" THEN total_impressions + 1 ELSE total_impressions

ClicksUpdated == IF pc = "updated" THEN total_clicks + reward ELSE total_clicks

\* C30: during the first run on a fresh policy, whenever k rounds are completed
\* (between rounds the run's counters stand at k and total_clicks; between a
\* round's update and the increments that follow it the policy is that one
\* round ahead), an EpsilonGreedy's pull counts sum to k and its total rewards
\* to total_clicks, and a ThompsonSampling's alpha exceeds the prior by
\* total_clicks in sum and its beta by k - total_clicks.
C30_Conservation ==
    FirstRunInProgress =>
        LET p == inst[algorithms[ai]]
        IN  /\ p.kind = "EpsilonGreedy" =>
                  /\ SumOf(p.pull_count, DOMAIN p.pull_count) = RoundsUpdated
                  /\ SumOf(p.total_reward, DOMAIN p.total_reward) = ClicksUpdated
            /\ p.kind = "ThompsonSampling" =>
                  /\ GainOf(p.alpha, p.prior_alpha) = ClicksUpdated
                  /\ GainOf(p.beta, p.prior_beta) = RoundsUpdated - ClicksUpdated

\* A fresh ThompsonSampling with prior beta 2 has completed two rounds, one of
\* them clicked, and stands between rounds.
C30_Witness ==
    /\ FirstRunInProgress
    /\ pc = "loop"
    /\ inst[algorithms[ai]].kind = "ThompsonSampling"
    /\ inst[algorithms[ai]].prior_beta = 2
    /\ total_impressions = 2
    /\ total_clicks = 1
    /\ GainOf(inst[algorithms[ai]].alpha, 1) = 1
    /\ GainOf(inst[algorithms[ai]].beta, 2) = 1

====
